---- MODULE Spec2Model ----
(***************************************************************************)
(* Madcow 5x5 planner (src/app.py): the Streamlit session (record table,   *)
(* start date, widgets), the spreadsheet behind it, and the arithmetic of  *)
(* the plan (projection, rounding, ramps, plate breakdown).                *)
(*                                                                         *)
(* Python floats are IEEE-754 binary64.  The model computes with them      *)
(* exactly: a float is a sign, a 53-bit significand held as a sequence of  *)
(* limbs, and a binary exponent; every operation forms the exact result    *)
(* and rounds it to nearest, ties to even.                                 *)
(***************************************************************************)
EXTENDS Integers, Sequences, FiniteSets

(***************************************************************************)
(* Natural numbers of any size: little-endian sequences of limbs, without  *)
(* high zero limbs (zero is the empty sequence).                           *)
(***************************************************************************)
LimbBits == 7 + 7
Base == 2^LimbBits

RECURSIVE Norm(_)
Norm(a) ==
    IF a = <<>> THEN a
    ELSE IF a[Len(a)] = 0 THEN Norm(SubSeq(a, 1, Len(a) - 1)) ELSE a

RECURSIVE FromNat(_)
FromNat(n) == IF n = 0 THEN <<>> ELSE <<n % Base>> \o FromNat(n \div Base)

RECURSIVE ToNat(_)
ToNat(a) == IF a = <<>> THEN 0 ELSE a[1] + Base * ToNat(Tail(a))

RECURSIVE AddC(_, _, _)
AddC(a, b, c) ==
    IF a = <<>> /\ b = <<>> THEN (IF c = 0 THEN <<>> ELSE <<c>>)
    ELSE LET x == (IF a = <<>> THEN 0 ELSE a[1]) + (IF b = <<>> THEN 0 ELSE b[1]) + c
         IN  <<x % Base>> \o AddC(IF a = <<>> THEN a ELSE Tail(a),
                                  IF b = <<>> THEN b ELSE Tail(b), x \div Base)

BigAdd(a, b) == AddC(a, b, 0)

RECURSIVE SubB(_, _, _)
SubB(a, b, br) ==
    IF a = <<>> THEN <<>>
    ELSE LET x == a[1] - (IF b = <<>> THEN 0 ELSE b[1]) - br
         IN  <<IF x < 0 THEN x + Base ELSE x>>
               \o SubB(Tail(a), IF b = <<>> THEN b ELSE Tail(b), IF x < 0 THEN 1 ELSE 0)

\* a - b, for a >= b
BigSub(a, b) == Norm(SubB(a, b, 0))

RECURSIVE CmpFrom(_, _, _)
CmpFrom(a, b, i) ==
    IF i = 0 THEN 0
    ELSE IF a[i] > b[i] THEN 1
    ELSE IF a[i] < b[i] THEN -1
    ELSE CmpFrom(a, b, i - 1)

\* -1, 0, 1 as a < b, a = b, a > b
BigCmp(a, b) ==
    IF Len(a) > Len(b) THEN 1
    ELSE IF Len(a) < Len(b) THEN -1
    ELSE CmpFrom(a, b, Len(a))

RECURSIVE MulS(_, _, _)
MulS(a, c, carry) ==
    IF a = <<>> THEN FromNat(carry)
    ELSE LET x == a[1] * c + carry
         IN  <<x % Base>> \o MulS(Tail(a), c, x \div Base)

\* a * c for a small c (c <= Base)
BigMulSmall(a, c) == IF c = 0 THEN <<>> ELSE MulS(a, c, 0)

RECURSIVE BigMul(_, _)
BigMul(a, b) ==
    IF a = <<>> \/ b = <<>> THEN <<>>
    ELSE LET rest == BigMul(a, Tail(b))
         IN  BigAdd(BigMulSmall(a, b[1]), IF rest = <<>> THEN rest ELSE <<0>> \o rest)

RECURSIVE DivS(_, _)
DivS(a, d) ==
    IF a = <<>> THEN <<<<>>, 0>>
    ELSE LET hi == DivS(Tail(a), d)
             x  == hi[2] * Base + a[1]
         IN  <<(<<x \div d>> \o hi[1]), x % d>>

\* <<a \div d, a % d>> for a small d (d <= Base)
BigDivSmall(a, d) == LET r == DivS(a, d) IN <<Norm(r[1]), r[2]>>

RECURSIVE Zeros(_)
Zeros(n) == IF n = 0 THEN <<>> ELSE <<0>> \o Zeros(n - 1)

\* a * 2^k
Shl(a, k) ==
    IF a = <<>> THEN a
    ELSE Zeros(k \div LimbBits) \o BigMulSmall(a, 2^(k % LimbBits))

\* <<a \div 2^k, whether a bit was shifted out>>
Shr(a, k) ==
    LET n    == k \div LimbBits
        low  == SubSeq(a, 1, IF n < Len(a) THEN n ELSE Len(a))
        high == IF n < Len(a) THEN SubSeq(a, n + 1, Len(a)) ELSE <<>>
        q    == BigDivSmall(high, 2^(k % LimbBits))
    IN  <<q[1], (q[2] # 0) \/ (\E i \in 1..Len(low) : low[i] # 0)>>

RECURSIVE SmallBits(_)
SmallBits(n) == IF n = 0 THEN 0 ELSE 1 + SmallBits(n \div 2)

\* the number of bits of a (0 for zero)
BitLen(a) ==
    IF a = <<>> THEN 0 ELSE (Len(a) - 1) * LimbBits + SmallBits(a[Len(a)])

IsOdd(a) == a # <<>> /\ a[1] % 2 = 1

RECURSIVE BigPow(_, _)
BigPow(a, k) == IF k = 0 THEN <<1>> ELSE BigMul(a, BigPow(a, k - 1))

RECURSIVE DivBits(_, _, _, _, _)
DivBits(r, q, p, t, sh) ==
    LET ge == BigCmp(r, p) >= 0
        r1 == IF ge THEN BigSub(r, p) ELSE r
        q1 == BigAdd(BigMulSmall(q, 2), IF ge THEN <<1>> ELSE <<>>)
    IN  IF BitLen(q1) >= t THEN <<q1, r1 # <<>>, sh>>
        ELSE DivBits(BigMulSmall(r1, 2), q1, p, t, sh + 1)

\* <<q, inexact, sh>> with q = 2^sh \div p of exactly t bits, by long division
RecipBits(p, t) == DivBits(Shl(<<1>>, BitLen(p) - 1), <<>>, p, t, BitLen(p) - 1)

(***************************************************************************)
(* binary64.  k: "num" (finite), "inf", "nan"; value s * m * 2^e with m    *)
(* of exactly MantBits bits; zero is m = <<>>, e = 0, s = 1 (Python's ==   *)
(* does not tell -0.0 from 0.0 or from the int 0).                         *)
(***************************************************************************)
MantBits == 53
GuardBits == 3

Zero == [k |-> "num", s |-> 1, m |-> <<>>, e |-> 0]
Inf(s) == [k |-> "inf", s |-> s, m |-> <<>>, e |-> 0]
NaN == [k |-> "nan", s |-> 1, m |-> <<>>, e |-> 0]

\* s * (n + d) * 2^e rounded to nearest, ties to even, where 0 <= d < 1 and
\* d > 0 iff sticky (an inexact n has at least MantBits + 1 bits)
RoundFloat(s, n, e, sticky) ==
    LET len == BitLen(n)
    IN  IF n = <<>> THEN Zero
        ELSE IF len <= MantBits
        THEN [k |-> "num", s |-> s, m |-> Shl(n, MantBits - len), e |-> e - (MantBits - len)]
        ELSE LET sh   == Shr(n, len - MantBits - 1)
                 half == IsOdd(sh[1])
                 m0   == BigDivSmall(sh[1], 2)[1]
                 up   == half /\ (sticky \/ sh[2] \/ IsOdd(m0))
                 m1   == IF up THEN BigAdd(m0, <<1>>) ELSE m0
                 e1   == e + (len - MantBits)
             IN  IF BitLen(m1) > MantBits
                 THEN [k |-> "num", s |-> s, m |-> BigDivSmall(m1, 2)[1], e |-> e1 + 1]
                 ELSE [k |-> "num", s |-> s, m |-> m1, e |-> e1]

\* float(n) of an int n, and n / 2^d
FromInt(n) == RoundFloat(IF n < 0 THEN -1 ELSE 1, FromNat(IF n < 0 THEN -n ELSE n), 0, FALSE)
FromDyadic(n, d) ==
    RoundFloat(IF n < 0 THEN -1 ELSE 1, FromNat(IF n < 0 THEN -n ELSE n), -d, FALSE)

IsZero(x) == x.k = "num" /\ x.m = <<>>

\* x * y
FMul(x, y) ==
    IF x.k = "nan" \/ y.k = "nan" THEN NaN
    ELSE IF x.k = "inf" \/ y.k = "inf"
    THEN (IF IsZero(x) \/ IsZero(y) THEN NaN ELSE Inf(x.s * y.s))
    ELSE RoundFloat(x.s * y.s, BigMul(x.m, y.m), x.e + y.e, FALSE)

\* x + y for finite x, y
FAdd(x, y) ==
    IF IsZero(x) THEN y
    ELSE IF IsZero(y) THEN x
    ELSE LET e  == IF x.e < y.e THEN x.e ELSE y.e
             a  == Shl(x.m, x.e - e)
             b  == Shl(y.m, y.e - e)
             c  == BigCmp(a, b)
         IN  IF x.s = y.s THEN RoundFloat(x.s, BigAdd(a, b), e, FALSE)
             ELSE IF c = 0 THEN Zero
             ELSE IF c > 0 THEN RoundFloat(x.s, BigSub(a, b), e, FALSE)
             ELSE RoundFloat(y.s, BigSub(b, a), e, FALSE)

\* x / (n / 2^d) for a finite x and a small int n > 0: x * 2^d / n
FDivSmall(x, n, d) ==
    IF x.k # "num" THEN x
    ELSE LET q == BigDivSmall(Shl(x.m, LimbBits + GuardBits), n)
         IN  RoundFloat(x.s, q[1], x.e + d - (LimbBits + GuardBits), q[2] # 0)

\* x ** k for an int k (C pow: x ** 0 is 1.0 for every x; numpy's float64
\* gives inf, not ZeroDivisionError, for 0.0 ** negative)
FPow(x, k) ==
    LET n  == IF k < 0 THEN -k ELSE k
        s  == IF x.s = -1 /\ n % 2 = 1 THEN -1 ELSE 1
    IN  IF k = 0 THEN FromInt(1)
        ELSE IF x.k = "nan" THEN NaN
        ELSE IF x.k = "inf" THEN (IF k > 0 THEN Inf(s) ELSE Zero)
        ELSE IF IsZero(x) THEN (IF k > 0 THEN Zero ELSE Inf(1))
        ELSE LET p == BigPow(x.m, n)
                 t == MantBits + GuardBits
                 q == RecipBits(p, t)
             IN  IF k > 0 THEN RoundFloat(s, p, x.e * n, FALSE)
                 ELSE RoundFloat(s, q[1], -q[3] - x.e * n, q[2])

\* s * n * 2^e to the nearest int, ties to even
RoundBig(s, n, e) ==
    IF n = <<>> THEN 0
    ELSE IF e >= 0 THEN s * ToNat(Shl(n, e))
    ELSE LET sh   == Shr(n, -e - 1)
             half == IsOdd(sh[1])
             n0   == ToNat(BigDivSmall(sh[1], 2)[1])
         IN  s * (IF half /\ (sh[2] \/ n0 % 2 = 1) THEN n0 + 1 ELSE n0)

\* a faulty round(x): int(x), which drops the fraction
PyTrunc(x) ==
    IF IsZero(x) THEN 0
    ELSE IF x.e >= 0 THEN x.s * ToNat(Shl(x.m, x.e))
    ELSE x.s * ToNat(Shr(x.m, -x.e)[1])

\* round(x) of a finite x
PyRound(x) == RoundBig(x.s, x.m, x.e)

\* round(x, 2) of a finite x: the float nearest to the decimal nearest to x
PyRound2(x) == FDivSmall(FromInt(RoundBig(x.s, BigMulSmall(x.m, 100), x.e)), 100, 0)

\* int(x // (p / 2)) for a finite x >= 0 and an int p > 0
FloorDivHalves(x, p) ==
    IF IsZero(x) THEN 0
    ELSE (IF x.e + 1 >= 0 THEN ToNat(Shl(x.m, x.e + 1))
          ELSE ToNat(Shr(x.m, -(x.e + 1))[1])) \div p

FNeg(x) == IF IsZero(x) \/ x.k = "nan" THEN x ELSE [x EXCEPT !.s = -x.s]

\* x <= y for finite x, y
FLe(x, y) == LET d == FAdd(x, FNeg(y)) IN IsZero(d) \/ d.s = -1

(***************************************************************************)
(* The session and the spreadsheet.                                        *)
(*                                                                         *)
(* A script rerun is one step: Streamlit runs src/app.py top to bottom on  *)
(* every interaction.  The tabs (section 6) read the session and write     *)
(* nothing, so what they show is a function of the state: Monday,          *)
(* Wednesday, Friday below.                                                *)
(*                                                                         *)
(* Units: Max in pounds (an int held as a float), Increment in tenths of a *)
(* percent, weights shown in half pounds, dates in days, spreadsheet       *)
(* numbers in tenths.                                                      *)
(***************************************************************************)
VARIABLES
    sheet,          \* the main worksheet: a sequence of rows of raw cells
    settings,       \* the Settings worksheet's start_date cell
    df_all,         \* st.session_state.df_all
    start_date,     \* st.session_state.start_date (and the date picker)
    sync_success,   \* st.session_state.sync_success at the end of a run
    current_user,   \* the lifter radio
    manual_week,    \* the "Manual Week Override" checkbox
    week_input,     \* the "Select Week" number input
    round_val,      \* the rounding radio, in half pounds
    syncWrites,     \* the conn.update calls of the last run and how each ended
    syncError,      \* st.error was shown in the last run
    successShown,   \* the success banner was shown in the last run
    call,           \* a helper call (section 3 functions called on their own)
    ret             \* what the helper call returned

vars == <<sheet, settings, df_all, start_date, sync_success, current_user,
          manual_week, week_input, round_val, syncWrites, syncError,
          successShown, call, ret>>

Users == {"Dylan", "Dane"}
RoundVals == {10, 5, 2}
WeekMax == 52
Today == 2 * 7

Num(v) == [t |-> "num", v |-> v]
Text == [t |-> "text", v |-> 0]
NoCell == [t |-> "none", v |-> 0]

\* round(0) of a number given in tenths: to the nearest int, ties to even
RoundTenths(v) ==
    LET q == v \div 10
        r == v % 10
    IN  IF r > 5 \/ (r = 5 /\ q % 2 = 1) THEN q + 1 ELSE q

\* pd.to_numeric(errors='coerce').fillna(0).round(0) and .fillna(2.5).round(1)
LoadRow(r) ==
    [User |-> r.User, Lift |-> r.Lift,
     Max |-> IF r.Max.t = "num" THEN RoundTenths(r.Max.v) ELSE 0,
     Increment |-> IF r.Increment.t = "num" THEN r.Increment.v ELSE 25]

\* load_data: the table, and the stored date or today
LoadTable(sh) == [i \in DOMAIN sh |-> LoadRow(sh[i])]
LoadDate(cell) == IF cell.t = "date" THEN cell.v ELSE Today

\* the cells conn.update writes for the table and for the date
SavedTable(df) ==
    [i \in DOMAIN df |-> [User |-> df[i].User, Lift |-> df[i].Lift,
                          Max |-> Num(10 * df[i].Max), Increment |-> Num(df[i].Increment)]]
SavedDate(d) == [t |-> "date", v |-> d]

\* max(1, (days_elapsed // 7) + 1)
AutoWeek(d) ==
    LET n == ((Today - d) \div 7) + 1 IN IF n > 1 THEN n ELSE 1

week == IF manual_week THEN week_input ELSE AutoWeek(start_date)

Unsynced ==
    /\ syncWrites' = <<>>
    /\ syncError' = FALSE
    /\ successShown' = sync_success
    /\ sync_success' = FALSE
    /\ UNCHANGED <<sheet, settings, call, ret>>

SelectUser(u) ==
    /\ u \in Users /\ u # current_user
    /\ current_user' = u
    /\ UNCHANGED <<df_all, start_date, manual_week, week_input, round_val>>
    /\ Unsynced

\* the number input has no key and value=auto_week: a new default is a new widget
PickDate(d) ==
    /\ d # start_date
    /\ start_date' = d
    /\ week_input' = IF manual_week /\ AutoWeek(d) = AutoWeek(start_date)
                     THEN week_input ELSE AutoWeek(d)
    /\ UNCHANGED <<df_all, current_user, manual_week, round_val>>
    /\ Unsynced

ToggleManualWeek ==
    /\ manual_week' = ~manual_week
    /\ week_input' = AutoWeek(start_date)
    /\ UNCHANGED <<df_all, start_date, current_user, round_val>>
    /\ Unsynced

SelectWeek(w) ==
    /\ manual_week /\ w >= 1 /\ w <= WeekMax /\ w # week_input
    /\ week_input' = w
    /\ UNCHANGED <<df_all, start_date, current_user, manual_week, round_val>>
    /\ Unsynced

SelectRounding(r) ==
    /\ r \in RoundVals /\ r # round_val
    /\ round_val' = r
    /\ UNCHANGED <<df_all, start_date, current_user, manual_week, week_input>>
    /\ Unsynced

\* a faulty editor: the edit is also written to the spreadsheet
EditMaxAutosave(i, v) ==
    /\ i \in DOMAIN df_all /\ df_all[i].User = current_user /\ v # df_all[i].Max
    /\ df_all' = [df_all EXCEPT ![i].Max = v]
    /\ sheet' = SavedTable(df_all')
    /\ syncWrites' = <<>>
    /\ syncError' = FALSE
    /\ successShown' = sync_success
    /\ sync_success' = FALSE
    /\ UNCHANGED <<settings, start_date, current_user, manual_week, week_input,
                   round_val, call, ret>>

\* the "5RM" input of row i (an int) and the write of line 106
EditMax(i, v) ==
    /\ i \in DOMAIN df_all /\ df_all[i].User = current_user /\ v # df_all[i].Max
    /\ df_all' = [df_all EXCEPT ![i].Max = v]
    /\ UNCHANGED <<start_date, current_user, manual_week, week_input, round_val>>
    /\ Unsynced

\* the "Inc %" input of row i and the write of line 107
EditInc(i, v) ==
    /\ i \in DOMAIN df_all /\ df_all[i].User = current_user /\ v # df_all[i].Increment
    /\ df_all' = [df_all EXCEPT ![i].Increment = v]
    /\ UNCHANGED <<start_date, current_user, manual_week, week_input, round_val>>
    /\ Unsynced

\* a faulty handler: the success flag is set before the writes are made
SyncFlagFirst(w1, w2) ==
    [writes   |-> IF w1 = "ok" THEN <<w1, w2>> ELSE <<w1>>,
     sheet    |-> IF w1 = "ok" THEN SavedTable(df_all) ELSE sheet,
     settings |-> IF w1 = "ok" /\ w2 = "ok" THEN SavedDate(start_date) ELSE settings,
     flag     |-> TRUE,
     error    |-> ~(w1 = "ok" /\ w2 = "ok")]

\* the button's handler, given how its conn.update calls end: the calls made,
\* the worksheets after them, and whether line 133 or line 136 was reached
Sync(w1, w2) ==
    [writes   |-> IF w1 = "ok" THEN <<w1, w2>> ELSE <<w1>>,
     sheet    |-> IF w1 = "ok" THEN SavedTable(df_all) ELSE sheet,
     settings |-> IF w1 = "ok" /\ w2 = "ok" THEN SavedDate(start_date) ELSE settings,
     flag     |-> w1 = "ok" /\ w2 = "ok",
     error    |-> ~(w1 = "ok" /\ w2 = "ok")]

SyncToCloud(w1, w2) ==
    LET r == Sync(w1, w2)
    IN  /\ sheet' = r.sheet
        /\ settings' = r.settings
        /\ syncWrites' = r.writes
        /\ syncError' = r.error
        /\ successShown' = (sync_success \/ r.flag)
        /\ sync_success' = FALSE
        /\ UNCHANGED <<df_all, start_date, current_user, manual_week, week_input,
                       round_val, call, ret>>

(***************************************************************************)
(* Section 3: the helper functions.  A weight that custom_round returns is *)
(* base * n: a multiple of half a pound, held as its number of half pounds *)
(* (base is 10, 5 or 2 half pounds).  A raised exception is named in exc.  *)
(***************************************************************************)
Rounded(v) == [exc |-> "", v |-> v]
Raised(e) == [exc |-> e, v |-> 0]

\* base * round(float(x) / base); round() raises on inf and on nan
custom_round(x, base) ==
    IF x.k = "inf" THEN Raised("OverflowError")
    ELSE IF x.k = "nan" THEN Raised("ValueError")
    ELSE Rounded(base * PyRound(FDivSmall(x, base, 1)))

\* 0.50, 0.625, 0.75, 0.875 in eighths
intervals == <<4, 5, 6, 7>>

get_madcow_ramps(top_weight, round_to) ==
    [i \in 1..Len(intervals) |->
        custom_round(FMul(top_weight, FromDyadic(intervals[i], 3)), round_to).v]

\* a faulty plate list: the 0.5 plate is missing
PlatesWithoutHalf == <<90, 70, 50, 20, 10, 5, 2>>

\* 45, 35, 25, 10, 5, 2.5, 1, 0.5 in half pounds
available_plates == <<90, 70, 50, 20, 10, 5, 2, 1>>

RECURSIVE PlateLoop(_, _, _)
PlateLoop(remaining, i, plates_needed) ==
    IF i > Len(available_plates) THEN plates_needed
    ELSE LET plate == available_plates[i]
             count == FloorDivHalves(remaining, plate)
         IN  IF count > 0
             THEN PlateLoop(PyRound2(FAdd(remaining, FNeg(FromDyadic(count * plate, 1)))),
                            i + 1, Append(plates_needed, <<count, plate>>))
             ELSE PlateLoop(remaining, i + 1, plates_needed)

\* the label is "plates" where the code joins the "NxP" entries
get_plate_breakdown(target_weight, bar_weight) ==
    IF FLe(target_weight, bar_weight) THEN [label |-> "Empty Bar", plates |-> <<>>]
    ELSE LET weight_per_side == FDivSmall(FAdd(target_weight, FNeg(bar_weight)), 2, 0)
             plates_needed   == PlateLoop(weight_per_side, 1, <<>>)
         IN  [label |-> IF plates_needed = <<>> THEN "Bar Only" ELSE "plates",
              plates |-> plates_needed]

(***************************************************************************)
(* Sections 5 and 6: get_stats and the three tabs.                         *)
(***************************************************************************)
\* the float of a number given in tenths, as float("2.5") or 25 / 10
TenthsFloat(v) == FDivSmall(FromInt(v), 10, 0)

\* the rows of the current user for a lift, in table order
Matching(lift_name) ==
    {i \in DOMAIN df_all : df_all[i].User = current_user /\ df_all[i].Lift = lift_name}

\* df_all[(User == current_user) & (Lift == lift_name)].iloc[0], when there is one
FirstRow(lift_name) ==
    df_all[CHOOSE i \in Matching(lift_name) : \A j \in Matching(lift_name) : i <= j]

\* a faulty anchor: the exponent is week - 5
LaterAnchor == 4 + 1

\* the week whose projection is the stored Max: the 4 of (week - 4)
AnchorWeek == 4

\* row['Max'] * ((1 + (row['Increment'] / 100)) ** (week - 4)) in week w
current_max(row, w) ==
    FMul(FromInt(row.Max),
         FPow(FAdd(FromInt(1), FDivSmall(TenthsFloat(row.Increment), 100, 0)),
              w - AnchorWeek))

\* (current_max, Increment), or (0, 0) when .iloc[0] raises IndexError
get_stats(lift_name) ==
    IF Matching(lift_name) = {} THEN <<Zero, Zero>>
    ELSE LET row == FirstRow(lift_name)
         IN  <<current_max(row, week), TenthsFloat(row.Increment)>>

HalvesFloat(v) == FromDyadic(v, 1)

NoCard(e) == [exc |-> e, ramps |-> <<>>, top |-> 0, triple |-> 0, backoff |-> 0]

\* tab1: one card of the Monday loop
Monday(lift) ==
    LET m_max == get_stats(lift)[1]
        m_top == custom_round(m_max, round_val)
    IN  IF m_top.exc # "" THEN NoCard(m_top.exc)
        ELSE [exc |-> "", ramps |-> get_madcow_ramps(HalvesFloat(m_top.v), round_val),
              top |-> m_top.v, triple |-> 0, backoff |-> 0]

MondayLifts == <<"Squat", "Bench", "Row">>
WednesdayLifts == <<"Squat (Light)", "Overhead Press", "Deadlift">>

\* tab2: the weight of the n-th Wednesday lift (sq_wed_top is computed first)
WednesdayWeight(n) ==
    LET sq_wed_top == custom_round(FMul(get_stats("Squat")[1], FromDyadic(3, 2)), round_val)
    IN  IF sq_wed_top.exc # "" THEN sq_wed_top
        ELSE IF n = 1 THEN sq_wed_top
        ELSE [exc |-> "", v |-> get_stats(WednesdayLifts[n])[1]]

Wednesday(n) ==
    LET weight == WednesdayWeight(n)
        top    == IF weight.exc # "" THEN weight
                  ELSE custom_round(IF n = 1 THEN HalvesFloat(weight.v) ELSE weight.v,
                                    round_val)
    IN  IF top.exc # "" THEN NoCard(top.exc)
        ELSE [exc |-> "",
              ramps |-> [i \in 1..4 |->
                  custom_round(FMul(HalvesFloat(top.v), FromDyadic(<<4, 5, 6, 8>>[i], 3)),
                               round_val).v],
              top |-> top.v, triple |-> 0, backoff |-> 0]

\* tab3: one card of the Friday loop
Friday(lift) ==
    LET stats   == get_stats(lift)
        mon_top == custom_round(stats[1], round_val)
        friday_triple ==
            custom_round(FMul(stats[1], FAdd(FromInt(1), FDivSmall(stats[2], 100, 0))),
                         round_val)
        base_ramps == get_madcow_ramps(HalvesFloat(mon_top.v), round_val)
    IN  IF mon_top.exc # "" THEN NoCard(mon_top.exc)
        ELSE IF friday_triple.exc # "" THEN NoCard(friday_triple.exc)
        ELSE [exc |-> "", ramps |-> base_ramps, top |-> mon_top.v,
              triple |-> friday_triple.v, backoff |-> base_ramps[3]]

\* the cards in script order; an exception ends the script, so a card is on
\* the page when neither it nor a card before it raised
Page ==
    [n \in 1..9 |-> IF n <= 3 THEN Monday(MondayLifts[n])
                    ELSE IF n <= 6 THEN Wednesday(n - 3)
                    ELSE Friday(MondayLifts[n - 6])]
Rendered(n) == \A j \in 1..n : Page[j].exc = ""

(***************************************************************************)
(* Bounds of the session model.                                            *)
(***************************************************************************)
MaxManualWeek == 2
DateInputs == {Today - 7, Today}
MaxInputs == {205}
IncInputs == {30}
Outcomes == {"ok", "fail"}

Row(u, l, m, i) == [User |-> u, Lift |-> l, Max |-> m, Increment |-> i]

\* what the spreadsheet may hold when the session starts
Sheets ==
    { <<Row("Dylan", "Squat", Num(2004), Num(25)), Row("Dane", "Squat", Text, Text)>>,
      <<Row("Dylan", "Squat", Num(2005), Text), Row("Dane", "Squat", Num(1350), Num(50))>> }
SettingsCells == {NoCell, Text, SavedDate(Today - 7)}

NoCall == [fn |-> "none", a |-> 0, b |-> 0]
NoRet == [fn |-> "none", exc |-> "", v |-> 0, label |-> "", plates |-> <<>>]

InitSession(S, C) ==
    /\ sheet \in S
    /\ settings \in C
    /\ df_all = LoadTable(sheet)
    /\ start_date = LoadDate(settings)
    /\ sync_success = FALSE
    /\ current_user = "Dylan"
    /\ manual_week = FALSE
    /\ week_input = AutoWeek(start_date)
    /\ round_val = 10
    /\ syncWrites = <<>>
    /\ syncError = FALSE
    /\ successShown = FALSE

Init == InitSession(Sheets, SettingsCells) /\ call = NoCall /\ ret = NoRet

Next ==
    \/ \E u \in Users : SelectUser(u)
    \/ \E d \in DateInputs : PickDate(d)
    \/ ToggleManualWeek
    \/ \E w \in 1..MaxManualWeek : SelectWeek(w)
    \/ \E r \in RoundVals : SelectRounding(r)
    \/ \E i \in DOMAIN df_all, v \in MaxInputs : EditMax(i, v)
    \/ \E i \in DOMAIN df_all, v \in IncInputs : EditInc(i, v)
    \/ \E w1 \in Outcomes, w2 \in Outcomes : SyncToCloud(w1, w2)

Spec == Init /\ [][Next]_vars

(***************************************************************************)
(* The weekly plan.  One lifter edits one record and moves through the     *)
(* weeks; the tabs are read in every state.  The editor's inputs have no   *)
(* lower bound (lines 104-105), so a Max or an Increment may be zero or    *)
(* negative.                                                               *)
(***************************************************************************)
MaxWeek == 7
PlanMaxInputs == {-100, 0, 60, 195, 250}
PlanIncInputs == {-1000, -40, 0, 40, 100}
PlanDateInputs == {Today - 14, Today - 7}
PlanSheets ==
    { <<Row("Dylan", "Squat", Num(1950), Num(40)), Row("Dane", "Squat", Num(1350), Num(50))>> }

InitPlan ==
    InitSession(PlanSheets, {SavedDate(Today - 7)}) /\ call = NoCall /\ ret = NoRet

NextPlan ==
    \/ \E d \in PlanDateInputs : PickDate(d)
    \/ ToggleManualWeek
    \/ \E w \in 1..MaxWeek : SelectWeek(w)
    \/ \E r \in RoundVals : SelectRounding(r)
    \/ \E i \in DOMAIN df_all, v \in PlanMaxInputs : EditMax(i, v)
    \/ \E i \in DOMAIN df_all, v \in PlanIncInputs : EditInc(i, v)

SpecPlan == InitPlan /\ [][NextPlan]_vars

(***************************************************************************)
(* The helpers called on their own.  get_plate_breakdown is defined in     *)
(* src/app.py and called nowhere in it, so it is exercised directly: a     *)
(* call is drawn at the start and the function applied to it.  Arguments   *)
(* are decimal numbers given in hundredths.                                *)
(***************************************************************************)
MaxHundredths == 1300
MaxNegHundredths == 300
MaxTargetSteps == 240
BarWeights == {4500, 4401}

HundredthsFloat(n) == FDivSmall(FromInt(n), 100, 0)

HelperCalls ==
    {[fn |-> "custom_round", a |-> n, b |-> r] :
        n \in (-MaxNegHundredths)..MaxHundredths, r \in RoundVals}
    \cup
    {[fn |-> "get_plate_breakdown", a |-> 4400 + 100 * k, b |-> bar] :
        k \in 0..(MaxTargetSteps + 1), bar \in BarWeights}

CallCustomRound ==
    /\ call.fn = "custom_round" /\ ret = NoRet
    /\ LET r == custom_round(HundredthsFloat(call.a), call.b)
       IN  ret' = [NoRet EXCEPT !.fn = call.fn, !.exc = r.exc, !.v = r.v]
    /\ UNCHANGED <<sheet, settings, df_all, start_date, sync_success, current_user,
                   manual_week, week_input, round_val, syncWrites, syncError,
                   successShown, call>>

CallPlateBreakdown ==
    /\ call.fn = "get_plate_breakdown" /\ ret = NoRet
    /\ LET r == get_plate_breakdown(HundredthsFloat(call.a), HundredthsFloat(call.b))
       IN  ret' = [NoRet EXCEPT !.fn = call.fn, !.label = r.label, !.plates = r.plates]
    /\ UNCHANGED <<sheet, settings, df_all, start_date, sync_success, current_user,
                   manual_week, week_input, round_val, syncWrites, syncError,
                   successShown, call>>

InitHelpers ==
    /\ InitSession(PlanSheets, {NoCell})
    /\ call \in HelperCalls
    /\ ret = NoRet

NextHelpers == CallCustomRound \/ CallPlateBreakdown

SpecHelpers == InitHelpers /\ [][NextHelpers]_vars

(***************************************************************************)
(* Properties.                                                             *)
(***************************************************************************)
Range(q) == {q[i] : i \in DOMAIN q}
Lifts == Range(MondayLifts) \cup Range(WednesdayLifts)

\* C1: the result of get_stats for a lift the current lifter has no row for
\* differs from its result for a lift whose first row has Max = 0.
C1_NotFoundIsDistinct ==
    \A absent \in Lifts, present \in Lifts :
        (Matching(absent) = {} /\ Matching(present) # {} /\ FirstRow(present).Max = 0)
            => get_stats(absent) # get_stats(present)

\* the Monday top set of a lift as week w computes it (lines 162-163)
MondayTopAt(lift, w) == custom_round(current_max(FirstRow(lift), w), round_val)

\* C2: for every record shown, the Friday triple computed in the current
\* week equals the Monday top set that the same record and rounding give in
\* the week after (where both are computed without an error).
C2_FridayTripleIsNextMondayTop ==
    \A n \in DOMAIN MondayLifts :
        (Matching(MondayLifts[n]) # {} /\ Friday(MondayLifts[n]).exc = ""
              /\ MondayTopAt(MondayLifts[n], week + 1).exc = "")
            => Friday(MondayLifts[n]).triple = MondayTopAt(MondayLifts[n], week + 1).v

\* C6: the ramps of every Monday card are exactly 4 values, non-decreasing
\* in order, each a multiple of the rounding increment.
C6_RampsNonDecreasing ==
    \A n \in DOMAIN MondayLifts :
        LET card == Monday(MondayLifts[n])
        IN  card.exc = ""
               => /\ Len(card.ramps) = 4
                  /\ \A i \in 1..3 : card.ramps[i] <= card.ramps[i + 1]
                  /\ \A i \in 1..4 : card.ramps[i] % round_val = 0

\* C7: for a record whose Increment is zero or negative, in every week, the
\* projection of get_stats is a number and rounding it to the top set raises
\* no error.
C7_NonPositiveIncrementComputes ==
    \A lift \in Lifts :
        (Matching(lift) # {} /\ FirstRow(lift).Increment <= 0)
            => /\ get_stats(lift)[1].k = "num"
               /\ custom_round(get_stats(lift)[1], round_val).exc = ""

\* C9: in week 4 the projected current max of every record is the record's
\* Max exactly.
C9_Week4IsTheAnchor ==
    week = 4 =>
        \A lift \in Lifts :
            Matching(lift) # {} => get_stats(lift)[1] = FromInt(FirstRow(lift).Max)

\* week 4 is selected for a record with a Max and a non-zero Increment
C9_Witness ==
    /\ week = 4
    /\ Matching("Squat") # {}
    /\ FirstRow("Squat").Max = 250
    /\ FirstRow("Squat").Increment = 100

\* C8: a sync in which a write fails shows the error, leaves df_all and
\* start_date as they were, sets no success flag (no banner), and makes no
\* call after the failed one.
C8_FailedSyncLeavesSession ==
    [][("fail" \in Range(syncWrites'))
        => /\ syncError'
           /\ df_all' = df_all
           /\ start_date' = start_date
           /\ ~successShown' /\ ~sync_success'
           /\ Len(syncWrites') <= 2
           /\ \A i \in DOMAIN syncWrites' : syncWrites'[i] = "fail" => i = Len(syncWrites')]_vars

\* a sync failed at its second write with an edited table in the session
C8_Witness ==
    /\ syncWrites = <<"ok", "fail">>
    /\ syncError
    /\ sheet = SavedTable(df_all)
    /\ settings # SavedDate(start_date)
    /\ \E i \in DOMAIN df_all : df_all[i].Max \in MaxInputs

\* C10: the two worksheets change only in a rerun in which the button's
\* handler made a successful conn.update call.
C10_OnlySyncWrites ==
    [][(sheet' # sheet \/ settings' # settings)
        => (syncWrites' # <<>> /\ syncWrites'[1] = "ok")]_vars

\* the session holds an edit and a new date that the spreadsheet does not
C10_Witness ==
    /\ syncWrites = <<>>
    /\ \E i \in DOMAIN df_all : df_all[i].Max \in MaxInputs
    /\ sheet # SavedTable(df_all)
    /\ settings # SavedDate(start_date)
    /\ start_date # Today

RECURSIVE PlateSum(_)
PlateSum(plates) ==
    IF plates = <<>> THEN 0
    ELSE plates[1][1] * plates[1][2] + PlateSum(Tail(plates))

RECURSIVE PlateCount(_)
PlateCount(plates) ==
    IF plates = <<>> THEN 0 ELSE plates[1][1] + PlateCount(Tail(plates))

\* C3: for target > bar, the emitted plates of one side sum to at most
\* (target - bar) / 2.  The sum is in half pounds, the arguments in hundredths.
C3_PlatesWithinPerSide ==
    (ret.fn = "get_plate_breakdown" /\ call.a > call.b)
        => 100 * PlateSum(ret.plates) <= call.a - call.b

\* the fewest plates of the canonical set that sum to each load of up to 60 lb
\* (index and plates in half pounds)
RECURSIVE FewestPlatesUpTo(_, _)
FewestPlatesUpTo(tbl, n) ==
    IF Len(tbl) >= n THEN tbl
    ELSE LET L == Len(tbl) + 1
             c == {IF p = L THEN 1 ELSE tbl[L - p] + 1 :
                       p \in {q \in Range(available_plates) : q <= L}}
         IN  FewestPlatesUpTo(Append(tbl, CHOOSE x \in c : \A y \in c : x <= y), n)
FewestPlates == FewestPlatesUpTo(<<>>, 60 * 2)

\* the per-side load of the call in half pounds, when it is a multiple of 0.5
Load == (call.a - call.b) \div 100
IsHalfPoundLoad ==
    ret.fn = "get_plate_breakdown" /\ call.a > call.b /\ (call.a - call.b) % 100 = 0

\* C4: for a per-side load that is a multiple of 0.5, the greedy plates sum
\* to the load exactly, and for a load below 60 no multiset of the canonical
\* plates with the same sum has fewer plates.
C4_GreedyExactAndFewestPlates ==
    IsHalfPoundLoad
        => /\ PlateSum(ret.plates) = Load
           /\ Load < 60 * 2 => PlateCount(ret.plates) = FewestPlates[Load]

\* a load below 60 that takes three denominations
C4_Witness ==
    /\ IsHalfPoundLoad
    /\ Load < 60 * 2
    /\ Len(ret.plates) = 3
    /\ PlateCount(ret.plates) = FewestPlates[Load]

\* other multisets of the canonical plates: one or two denominations
MaxAltCount == 3
Alternatives ==
    {<<<<c, p>>>> : c \in 1..MaxAltCount, p \in Range(available_plates)}
    \cup
    {<<<<c[1], p[1]>>, <<c[2], p[2]>>>> :
        c \in (1..MaxAltCount) \X (1..MaxAltCount),
        p \in {q \in Range(available_plates) \X Range(available_plates) : q[1] > q[2]}}

\* C4 as stated: for a per-side load that is a multiple of 0.5, no other
\* multiset with the same sum has fewer (denomination, count) pairs than the
\* greedy result.
C4_FewestPairs ==
    IsHalfPoundLoad
        => \A alt \in Alternatives :
              PlateSum(alt) = Load => Len(ret.plates) <= Len(alt)

\* |v / 2 - x| <= base / 4 for a finite float x and ints v, base, exactly
Within(x, v, base) ==
    LET K == IF -x.e > 2 THEN -x.e ELSE 2
        X == Shl(x.m, K + x.e)
        V == Shl(FromNat(IF v < 0 THEN -v ELSE v), K - 1)
        T == Shl(FromNat(base), K - 2)
        D == IF X = <<>> \/ V = <<>> \/ ((x.s = -1) <=> (v < 0))
             THEN (IF BigCmp(X, V) >= 0 THEN BigSub(X, V) ELSE BigSub(V, X))
             ELSE BigAdd(X, V)
    IN  BigCmp(D, T) <= 0

\* C5: custom_round(v, inc) is a multiple of inc and differs from v by at
\* most inc / 2.
C5_RoundedToNearestMultiple ==
    ret.fn = "custom_round"
        => /\ ret.exc = ""
           /\ ret.v % call.b = 0
           /\ Within(HundredthsFloat(call.a), ret.v, call.b)

\* 7.5 rounded to 5: a tie, which goes to the even multiple
C5_Witness ==
    /\ ret.fn = "custom_round"
    /\ call.a = 750 /\ call.b = 10
    /\ ret.v = 2 * 10
====
